---- MODULE Spec2Model ----
(***************************************************************************)
(* ExpenseTracker (expense_tracker.py): the expense record store, the      *)
(* budget monitor and the list query, as a state machine over the two      *)
(* persisted documents expenses.json and budget.json.                      *)
(*                                                                         *)
(* Amounts are exact numerals counted in cents (450 is 4.50).  A timestamp *)
(* is a record [day, sec]; its "%Y-%m-%d %H:%M:%S" text is the pair        *)
(* <<day, sec>> and a "%Y-%m-%d" text is the 1-tuple <<day>>.  An optional *)
(* argument is a sequence: <<>> is None, <<v>> is the value v.             *)
(***************************************************************************)
EXTENDS Integers, Sequences, FiniteSets, TLC

VARIABLES
    EXPENSES_FILE,  \* content of expenses.json
    BUDGET_FILE,    \* content of budget.json
    stdout,         \* the lines printed by the last invocation
    called,         \* the operation called last ("" before the first)
    proc,           \* the simultaneous invocations of SpecRace: position and locals
    saves,          \* history: the invocations of SpecRace in the order they saved
    removed         \* history: the ids delete_expense has removed (SpecIds)

vars == <<EXPENSES_FILE, BUDGET_FILE, stdout, called, proc, saves, removed>>

----------------------------------------------------------------------------
(* Bounds and input domains *)

\* Largest id an add may assign; it also bounds the collection's length.
MaxId == 3

\* Longest collection an initial document is drawn with (SpecUpdate, SpecList,
\* SpecRoundTrip, SpecRace).
MaxDrawn == 2

None == <<>>

Some(v) == <<v>>

Optional(S) == {None} \cup {Some(v) : v \in S}

\* --id of delete and update: 0 is never assigned
IdArgs == 0 .. MaxId

\* datetime.now(), to the second: a later second of day 0, midnight of day 1
Clock == {[day |-> 0, sec |-> 1], [day |-> 1, sec |-> 0]}

Days == {0, 1}

Seconds == {0, 1}

Times == [day : Days, sec : Seconds]

\* add's --description, --amount, --category in the sequential specifications
AddArgs == {<<"Coffee", 450, Some("Food")>>, <<"Bus", 200, None>>, <<"", 0, Some("")>>}

\* update's --description, --amount, --category in Spec
UpdateArgs == {<<Some(""), Some(0), None>>, <<None, Some(450), None>>}

\* set-budget's --amount
Budgets == {500}

\* update's --description, --amount, --category in SpecUpdate
Descriptions == {"", "Tea"}

Amounts == {0, 300}

Categories == {"", "Fun"}

\* list's --category
ListCategories == {"Food", "Uncategorized"}

----------------------------------------------------------------------------
(* Python built-ins used by the program *)

\* bool(x) of an optional string argument: None and "" are falsy
TruthyStr(x) == x # None /\ x[1] # ""

\* bool(x) of an optional float argument: None and 0.0 are falsy
TruthyNum(x) == x # None /\ x[1] # 0

\* max(iterable, default=0)
MaxDefault0(S) == IF S = {} THEN 0 ELSE CHOOSE m \in S : \A x \in S : x <= m

RECURSIVE SumAmounts(_)
\* sum(expense['amount'] for expense in expenses)
SumAmounts(expenses) ==
    IF expenses = <<>> THEN 0
    ELSE Head(expenses).amount + SumAmounts(Tail(expenses))

\* datetime.strftime(t, "%Y-%m-%d %H:%M:%S")
strftime(t) == <<t.day, t.sec>>

\* datetime.strptime(s, "%Y-%m-%d %H:%M:%S")
strptime(s) == [day |-> s[1], sec |-> s[2]]

\* datetime.strptime(s, "%Y-%m-%d"): midnight of that day
strptime_date(s) == [day |-> s[1], sec |-> 0]

\* datetime <= datetime
TimeLeq(a, b) == a.day < b.day \/ (a.day = b.day /\ a.sec <= b.sec)

----------------------------------------------------------------------------
(* Documents.  A file is absent, holds text that is not JSON, or holds the *)
(* text json.dump wrote for a value with a given indent.                   *)

Absent == [state |-> "absent", indent |-> 0, data |-> <<>>]

Corrupt == [state |-> "corrupt", indent |-> 0, data |-> <<>>]

\* json.dump(value, file, indent=indent) for a list: "[]" whatever the indent
json_dump_list(value, indent) ==
    [state |-> "json", indent |-> IF value = <<>> THEN 0 ELSE indent, data |-> value]

\* json.dump(value, file) for an object
json_dump_object(value) == [state |-> "json", indent |-> 0, data |-> value]

\* json.load raises FileNotFoundError or JSONDecodeError
json_load_raises(file) == file.state # "json"

initialize_expenses_file(file) ==
    IF file.state = "absent" THEN json_dump_list(<<>>, 0) ELSE file

initialize_budget_file(file) ==
    IF file.state = "absent" THEN json_dump_object([monthly_budget |-> 0]) ELSE file

load_expenses(file) == IF json_load_raises(file) THEN <<>> ELSE file.data

\* mutant: the indent argument forgotten
save_expenses_compact(expenses) == json_dump_list(expenses, 0)

save_expenses(expenses) == json_dump_list(expenses, 4)

load_budget(file) ==
    IF json_load_raises(file) THEN 0
    ELSE IF "monthly_budget" \in DOMAIN file.data THEN file.data.monthly_budget ELSE 0

save_budget(monthly_budget) == json_dump_object([monthly_budget |-> monthly_budget])

----------------------------------------------------------------------------
(* Printed lines *)

Line(msg, arg) == [msg |-> msg, arg |-> arg]

\* mutant: warns from the budget on, not only above it
check_budget_geq(expensesFile, budgetFile) ==
    LET total_expenses == SumAmounts(load_expenses(expensesFile))
        monthly_budget == load_budget(budgetFile)
    IN  IF total_expenses >= monthly_budget
        THEN <<Line("warning", monthly_budget)>>
        ELSE <<>>

\* check_budget(): the warning line, or nothing
check_budget(expensesFile, budgetFile) ==
    LET total_expenses == SumAmounts(load_expenses(expensesFile))
        monthly_budget == load_budget(budgetFile)
    IN  IF total_expenses > monthly_budget
        THEN <<Line("warning", monthly_budget)>>
        ELSE <<>>

Ids(expenses) == {expenses[i].id : i \in 1 .. Len(expenses)}

\* mutant: the number of records plus one
new_id_count(expenses) == Len(expenses) + 1

\* mutant: the smallest id no record has
new_id_first_free(expenses) ==
    CHOOSE n \in 1 .. Len(expenses) + 1 :
        n \notin Ids(expenses) /\ \A m \in 1 .. n - 1 : m \in Ids(expenses)

new_id(expenses) == MaxDefault0(Ids(expenses)) + 1

\* the record add_expense builds
new_expense(id, description, amount, category, now) ==
    [id |-> id,
     description |-> description,
     amount |-> amount,
     date |-> strftime(now),
     category |-> IF TruthyStr(category) THEN category[1] ELSE "Uncategorized"]

\* mutant: the new record put first
appended_front(expenses, description, amount, category, now) ==
    <<new_expense(new_id(expenses), description, amount, category, now)>> \o expenses

\* expenses after add_expense's append
appended(expenses, description, amount, category, now) ==
    Append(expenses, new_expense(new_id(expenses), description, amount, category, now))

\* mutant: the records from the given id on are all dropped
updated_expenses_below(expenses, expense_id) ==
    LET keep(e) == e.id < expense_id IN SelectSeq(expenses, keep)

\* the list delete_expense builds
updated_expenses(expenses, expense_id) ==
    LET keep(e) == e.id # expense_id IN SelectSeq(expenses, keep)

\* mutant: the loop's last record is taken when none matches
FirstMatch_or_last(expenses, expense_id) ==
    LET hits == {i \in 1 .. Len(expenses) : expenses[i].id = expense_id}
    IN  IF hits = {} THEN Len(expenses) ELSE CHOOSE i \in hits : \A j \in hits : i <= j

\* index of the first record update_expense's loop matches, 0 if none
FirstMatch(expenses, expense_id) ==
    LET hits == {i \in 1 .. Len(expenses) : expenses[i].id = expense_id}
    IN  IF hits = {} THEN 0 ELSE CHOOSE i \in hits : \A j \in hits : i <= j

\* mutant: a field is overwritten whenever a value is given (is not None)
update_record_if_given(expense, description, amount, category, now) ==
    [id |-> expense.id,
     description |-> IF description # None THEN description[1] ELSE expense.description,
     amount |-> IF amount # None THEN amount[1] ELSE expense.amount,
     date |-> strftime(now),
     category |-> IF category # None THEN category[1] ELSE expense.category]

\* the matched record after update_expense's assignments
update_record(expense, description, amount, category, now) ==
    [id |-> expense.id,
     description |-> IF TruthyStr(description) THEN description[1] ELSE expense.description,
     amount |-> IF TruthyNum(amount) THEN amount[1] ELSE expense.amount,
     date |-> strftime(now),
     category |-> IF TruthyStr(category) THEN category[1] ELSE expense.category]

\* expenses after update_expense's loop has matched the record at index i
updated(expenses, i, description, amount, category, now) ==
    [expenses EXCEPT ![i] = update_record(expenses[i], description, amount, category, now)]

\* list_expenses(category, start_date, end_date): the rows it prints
list_expenses(file, category, start_date, end_date) ==
    LET expenses == load_expenses(file)
        inCategory(e) == e.category = category[1]
        byCategory == IF TruthyStr(category) THEN SelectSeq(expenses, inCategory) ELSE expenses
        fromStart(e) == TimeLeq(strptime_date(start_date[1]), strptime(e.date))
        byStart == IF start_date # None THEN SelectSeq(byCategory, fromStart) ELSE byCategory
        toEnd(e) == TimeLeq(strptime(e.date), strptime_date(end_date[1]))
    IN  IF end_date # None THEN SelectSeq(byStart, toEnd) ELSE byStart

\* the lines list_expenses prints for the rows left after filtering
list_output(rows, category) ==
    IF rows = <<>>
    THEN IF TruthyStr(category)
         THEN <<Line("no_expenses_in_category", category[1])>>
         ELSE <<Line("no_expenses_recorded", "")>>
    ELSE [i \in 1 .. Len(rows) |-> Line("row", rows[i])]

----------------------------------------------------------------------------
(* One invocation at a time: each action is one whole operation *)

Sequential == UNCHANGED <<proc, saves>>

add_expense(description, amount, category, now) ==
    LET expenses == load_expenses(EXPENSES_FILE)
        written == save_expenses(appended(expenses, description, amount, category, now))
    IN  /\ new_id(expenses) <= MaxId
        /\ EXPENSES_FILE' = written
        /\ stdout' = <<Line("added", new_id(expenses))>> \o check_budget(written, BUDGET_FILE)
        /\ called' = "add_expense"
        /\ UNCHANGED BUDGET_FILE

delete_expense(expense_id) ==
    LET expenses == load_expenses(EXPENSES_FILE)
        kept == updated_expenses(expenses, expense_id)
    IN  /\ IF Len(kept) = Len(expenses)
           THEN /\ stdout' = <<Line("not_found", expense_id)>>
                /\ UNCHANGED EXPENSES_FILE
           ELSE /\ EXPENSES_FILE' = save_expenses(kept)
                /\ stdout' = <<Line("deleted", expense_id)>>
        /\ called' = "delete_expense"
        /\ UNCHANGED BUDGET_FILE

update_expense(expense_id, description, amount, category, now) ==
    LET expenses == load_expenses(EXPENSES_FILE)
        i == FirstMatch(expenses, expense_id)
    IN  /\ IF i = 0
           THEN /\ stdout' = <<Line("not_found", expense_id)>>
                /\ UNCHANGED EXPENSES_FILE
           ELSE /\ EXPENSES_FILE' =
                       save_expenses(updated(expenses, i, description, amount, category, now))
                /\ stdout' = <<Line("updated", expense_id)>>
        /\ called' = "update_expense"
        /\ UNCHANGED BUDGET_FILE

set_budget(amount) ==
    /\ BUDGET_FILE' = save_budget(amount)
    /\ stdout' = <<Line("budget_set", amount)>>
    /\ called' = "set_budget"
    /\ UNCHANGED EXPENSES_FILE

\* main's 'list' branch: only args.category reaches list_expenses
list_command(category, start_date, end_date) ==
    /\ stdout' = list_output(list_expenses(EXPENSES_FILE, category, None, None), category)
    /\ called' = "list_expenses"
    /\ UNCHANGED <<EXPENSES_FILE, BUDGET_FILE>>

\* save_expenses(load_expenses())
round_trip ==
    /\ EXPENSES_FILE' = save_expenses(load_expenses(EXPENSES_FILE))
    /\ called' = "save_expenses"
    /\ UNCHANGED <<BUDGET_FILE, stdout>>

\* The state after the entry point's two initialize calls on a fresh directory.
Init ==
    /\ EXPENSES_FILE = initialize_expenses_file(Absent)
    /\ BUDGET_FILE = initialize_budget_file(Absent)
    /\ stdout = <<>>
    /\ called = ""
    /\ proc = <<>>
    /\ saves = <<>>
    /\ removed = {}

Add ==
    \E a \in AddArgs, now \in Clock :
        add_expense(a[1], a[2], a[3], now) /\ Sequential /\ UNCHANGED removed

Delete ==
    \E expense_id \in IdArgs :
        delete_expense(expense_id) /\ Sequential /\ UNCHANGED removed

Update ==
    \E expense_id \in IdArgs, u \in UpdateArgs, now \in Clock :
        update_expense(expense_id, u[1], u[2], u[3], now) /\ Sequential /\ UNCHANGED removed

SetBudget == \E amount \in Budgets : set_budget(amount) /\ Sequential /\ UNCHANGED removed

Next == Add \/ Delete \/ Update \/ SetBudget

Spec == Init /\ [][Next]_vars

----------------------------------------------------------------------------
(* SpecIds: adds and deletes, with the history of the ids deletes removed *)

DeleteIds ==
    \E expense_id \in IdArgs :
        /\ delete_expense(expense_id)
        /\ Sequential
        /\ removed' = IF expense_id \in Ids(load_expenses(EXPENSES_FILE))
                      THEN removed \cup {expense_id}
                      ELSE removed

NextIds == Add \/ DeleteIds

SpecIds == Init /\ [][NextIds]_vars

----------------------------------------------------------------------------
(* SpecAdds: add calls only *)

NextAdds == Add

SpecAdds == Init /\ [][NextAdds]_vars

----------------------------------------------------------------------------
(* Documents the program can have written: records as add_expense and       *)
(* update_expense store them, ids strictly increasing along the collection. *)

StoredRecords(args, times) ==
    {new_expense(id, a[1], a[2], a[3], t) : id \in 1 .. MaxId, a \in args, t \in times}

Collections(records, n) ==
    UNION {{c \in [1 .. k -> records] : \A i \in 1 .. k - 1 : c[i].id < c[i + 1].id}
             : k \in 0 .. n}

DrawnFrom(documents) ==
    /\ EXPENSES_FILE \in documents
    /\ BUDGET_FILE = initialize_budget_file(Absent)
    /\ stdout = <<>>
    /\ called = ""
    /\ proc = <<>>
    /\ saves = <<>>
    /\ removed = {}

----------------------------------------------------------------------------
(* SpecUpdate: one update call, with every combination of optional         *)
(* arguments, on a document drawn from those the program can have written. *)

\* the fields of the records of the drawn documents: all falsy, all truthy
UpdateStored == {<<"", 0, None>>, <<"Coffee", 450, Some("Food")>>}

UpdateDocuments ==
    {save_expenses(c) :
        c \in Collections(StoredRecords(UpdateStored, {[day |-> 0, sec |-> 1]}), MaxDrawn)}

InitUpdate == DrawnFrom(UpdateDocuments)

UpdateAny ==
    \E expense_id \in IdArgs, description \in Optional(Descriptions),
       amount \in Optional(Amounts), category \in Optional(Categories), now \in Clock :
        /\ called = ""
        /\ update_expense(expense_id, description, amount, category, now)
        /\ Sequential
        /\ UNCHANGED removed

NextUpdate == UpdateAny

SpecUpdate == InitUpdate /\ [][NextUpdate]_vars

----------------------------------------------------------------------------
(* SpecRoundTrip: save_expenses(load_expenses()) on any document *)

\* absent, not JSON, or the text json.dump writes with indent=4
RoundTripDocuments ==
    {Absent, Corrupt}
        \cup {json_dump_list(c, 4) : c \in Collections(StoredRecords(AddArgs, Clock), MaxDrawn)}

InitRoundTrip == DrawnFrom(RoundTripDocuments)

RoundTrip == round_trip /\ Sequential /\ UNCHANGED removed

NextRoundTrip == RoundTrip

SpecRoundTrip == InitRoundTrip /\ [][NextRoundTrip]_vars

----------------------------------------------------------------------------
(* SpecList: the list command with every combination of filters *)

ListDocuments ==
    {save_expenses(c) :
        c \in Collections(
                StoredRecords({"Coffee"} \X {450} \X {None, Some("Food")}, Times),
                MaxDrawn)}

\* --start-date and --end-date texts
DateArgs == {<<d>> : d \in Days}

InitList == DrawnFrom(ListDocuments)

List ==
    \E category \in Optional(ListCategories), start_date \in Optional(DateArgs),
       end_date \in Optional(DateArgs) :
        list_command(category, start_date, end_date) /\ Sequential /\ UNCHANGED removed

NextList == List

SpecList == InitList /\ [][NextList]_vars

----------------------------------------------------------------------------
(* SpecRace: two invocations at once.  Each is its own process: it loads,   *)
(* then computes and saves, then (add only) checks the budget.  One load    *)
(* and one save are each one step.                                          *)

Procs == {1, 2}

RaceAddArgs == {<<"Coffee", 450, Some("Food")>>, <<"Bus", 200, None>>}

RaceNow == [day |-> 1, sec |-> 0]

RaceCalls ==
    {[op |-> "add", expense_id |-> 0, args |-> a] : a \in RaceAddArgs}
        \cup {[op |-> "delete", expense_id |-> id, args |-> <<None, None, None>>]
                : id \in 1 .. MaxId}
        \cup {[op |-> "update", expense_id |-> id, args |-> <<None, Some(450), None>>]
                : id \in 1 .. MaxId}

RaceDocuments ==
    {save_expenses(c) :
        c \in Collections(StoredRecords(RaceAddArgs, {[day |-> 0, sec |-> 1]}), MaxDrawn)}

\* the list an invocation saves, from the list it loaded
effect(call, expenses) ==
    CASE call.op = "add" ->
            appended(expenses, call.args[1], call.args[2], call.args[3], RaceNow)
      [] call.op = "delete" -> updated_expenses(expenses, call.expense_id)
      [] call.op = "update" ->
            IF FirstMatch(expenses, call.expense_id) = 0 THEN expenses
            ELSE updated(expenses, FirstMatch(expenses, call.expense_id),
                         call.args[1], call.args[2], call.args[3], RaceNow)

\* whether the invocation reaches its save_expenses call
saves_it(call, expenses) ==
    CASE call.op = "add" -> TRUE
      [] call.op = "delete" ->
            Len(updated_expenses(expenses, call.expense_id)) # Len(expenses)
      [] call.op = "update" -> FirstMatch(expenses, call.expense_id) # 0

\* the line the invocation prints
report(call, expenses) ==
    CASE call.op = "add" -> Line("added", new_id(expenses))
      [] call.op = "delete" ->
            IF saves_it(call, expenses) THEN Line("deleted", call.expense_id)
            ELSE Line("not_found", call.expense_id)
      [] call.op = "update" ->
            IF saves_it(call, expenses) THEN Line("updated", call.expense_id)
            ELSE Line("not_found", call.expense_id)

InitRace ==
    /\ EXPENSES_FILE \in RaceDocuments
    /\ BUDGET_FILE = initialize_budget_file(Absent)
    /\ stdout = <<>>
    /\ called = ""
    /\ proc \in [Procs -> [pc : {"start"}, call : RaceCalls, expenses : {<<>>},
                           written : {<<>>}, early : {FALSE}, out : {<<>>}]]
    /\ saves = <<>>
    /\ removed = {}

\* expenses = load_expenses()
race_load(p) ==
    /\ proc[p].pc = "start"
    /\ proc' = [proc EXCEPT ![p].pc = "loaded",
                            ![p].expenses = load_expenses(EXPENSES_FILE),
                            ![p].early = (saves = <<>>)]
    /\ UNCHANGED <<EXPENSES_FILE, BUDGET_FILE, stdout, called, saves, removed>>

\* mutant: the document is read again at the save
race_local_reload(p) == load_expenses(EXPENSES_FILE)

\* the list the invocation works on between its load and its save
race_local(p) == proc[p].expenses

\* the mutation of the loaded list, save_expenses and the print after it
race_save(p) ==
    LET call == proc[p].call
        expenses == race_local(p)
    IN  /\ proc[p].pc = "loaded"
        /\ call.op = "add" => new_id(expenses) <= MaxId
        /\ IF saves_it(call, expenses)
           THEN /\ EXPENSES_FILE' = save_expenses(effect(call, expenses))
                /\ saves' = Append(saves, p)
                /\ proc' = [proc EXCEPT
                              ![p].pc = IF call.op = "add" THEN "saved" ELSE "done",
                              ![p].written = effect(call, expenses),
                              ![p].out = <<report(call, expenses)>>]
           ELSE /\ proc' = [proc EXCEPT ![p].pc = "done",
                                        ![p].out = <<report(call, expenses)>>]
                /\ UNCHANGED <<EXPENSES_FILE, saves>>
        /\ UNCHANGED <<BUDGET_FILE, stdout, called, removed>>

\* add_expense's check_budget(), which loads both documents again
race_check(p) ==
    /\ proc[p].pc = "saved"
    /\ proc' = [proc EXCEPT ![p].pc = "done",
                            ![p].out = @ \o check_budget(EXPENSES_FILE, BUDGET_FILE)]
    /\ UNCHANGED <<EXPENSES_FILE, BUDGET_FILE, stdout, called, saves, removed>>

RaceLoad == \E p \in Procs : race_load(p)

RaceSave == \E p \in Procs : race_save(p)

RaceCheck == \E p \in Procs : race_check(p)

NextRace == RaceLoad \/ RaceSave \/ RaceCheck

SpecRace == InitRace /\ [][NextRace]_vars

----------------------------------------------------------------------------
(* Claims about one invocation at a time, from the empty collection (Spec) *)

Expenses == load_expenses(EXPENSES_FILE)

\* expenses without its k-th record
Without(expenses, k) == SubSeq(expenses, 1, k - 1) \o SubSeq(expenses, k + 1, Len(expenses))

\* C1: after any sequence of add, update and delete calls from the empty
\* document, no two records of the persisted collection have the same id.
UniqueIds ==
    \A i, j \in 1 .. Len(Expenses) : i # j => Expenses[i].id # Expenses[j].id

\* C1 witness: ids 2 and 3 are left after an add followed a delete of id 1.
UniqueIdsWitness ==
    /\ called = "add_expense"
    /\ Len(Expenses) = 2
    /\ Ids(Expenses) = {2, 3}

\* C4: deleting a present id removes exactly that record (one record fewer, the
\* others unchanged and in order), and a delete of the same id right after it
\* prints not_found and leaves the collection as it is.
DeleteRemovesExactlyOne ==
    [][called' = "delete_expense" =>
         \A expense_id \in IdArgs :
           /\ (expense_id \in Ids(Expenses) /\ delete_expense(expense_id)) =>
                /\ Len(Expenses') = Len(Expenses) - 1
                /\ \E k \in 1 .. Len(Expenses) :
                      /\ Expenses[k].id = expense_id
                      /\ Expenses' = Without(Expenses, k)
                /\ stdout' = <<Line("deleted", expense_id)>>
           /\ (called = "delete_expense" /\ stdout = <<Line("deleted", expense_id)>>
                  /\ delete_expense(expense_id)) =>
                /\ stdout' = <<Line("not_found", expense_id)>>
                /\ EXPENSES_FILE' = EXPENSES_FILE
      ]_vars

\* C4 witness: the middle one of three records has just been deleted.
DeleteWitness ==
    /\ called = "delete_expense"
    /\ stdout = <<Line("deleted", 2)>>
    /\ Len(Expenses) = 2
    /\ Ids(Expenses) = {1, 3}

\* C6: update and delete of an id no record has print not_found and leave the
\* expense document and the budget document as they were.
NotFoundIsNoOp ==
    [][\A expense_id \in IdArgs :
         (stdout'[1].arg = expense_id /\ expense_id \notin Ids(Expenses)) =>
           /\ (called' = "delete_expense" /\ delete_expense(expense_id)) =>
                /\ stdout' = <<Line("not_found", expense_id)>>
                /\ UNCHANGED <<EXPENSES_FILE, BUDGET_FILE>>
           /\ called' = "update_expense" =>
                \A u \in UpdateArgs, now \in Clock :
                    update_expense(expense_id, u[1], u[2], u[3], now) =>
                        /\ stdout' = <<Line("not_found", expense_id)>>
                        /\ UNCHANGED <<EXPENSES_FILE, BUDGET_FILE>>
      ]_vars

\* C6 witness: an update of an absent id on a collection that holds records.
NotFoundWitness ==
    /\ called = "update_expense"
    /\ Len(Expenses) >= 1
    /\ \E expense_id \in IdArgs :
          /\ expense_id \notin Ids(Expenses)
          /\ stdout = <<Line("not_found", expense_id)>>

\* the sum of the amounts of all persisted records
TotalSpend ==
    LET RECURSIVE upTo(_)
        upTo(n) == IF n = 0 THEN 0 ELSE upTo(n - 1) + Expenses[n].amount
    IN  upTo(Len(Expenses))

\* C7: the add just performed printed the budget warning if and only if the sum
\* of all persisted amounts, the new record's included, is strictly greater than
\* the stored budget.
WarningIffOverBudget ==
    called = "add_expense" =>
        /\ stdout[1] = Line("added", Expenses[Len(Expenses)].id)
        /\ IF TotalSpend > load_budget(BUDGET_FILE)
           THEN stdout = <<stdout[1], Line("warning", load_budget(BUDGET_FILE))>>
           ELSE stdout = <<stdout[1]>>

\* C7 witness: adds of 4.50 and 2.00, set-budget 5.00, then an add of 4.50 that
\* gets id 3 and warns, 11.00 being over 5.00.
WarningWitness ==
    /\ called = "add_expense"
    /\ [i \in 1 .. Len(Expenses) |-> Expenses[i].amount] = <<450, 200, 450>>
    /\ load_budget(BUDGET_FILE) = 500
    /\ stdout = <<Line("added", 3), Line("warning", 500)>>

----------------------------------------------------------------------------
(* Claims about ids (SpecIds, SpecAdds) *)

AddsCountFromOne ==
    [][\A a \in AddArgs, now \in Clock :
         add_expense(a[1], a[2], a[3], now) =>
           /\ \A k \in 1 .. Len(Expenses) : Expenses[k].id = k
           /\ stdout'[1] = Line("added", Len(Expenses) + 1)
           /\ Expenses' = Expenses \o
                <<[id |-> Len(Expenses) + 1, description |-> a[1], amount |-> a[2],
                   date |-> <<now.day, now.sec>>,
                   category |-> IF a[3] \in {None, <<"">>} THEN "Uncategorized"
                                ELSE a[3][1]]>>
           /\ \A k \in 1 .. Len(Expenses') : Expenses'[k].id = k
      ]_vars

\* C3 witness: three adds have given ids 1, 2, 3 in call order.
AddsWitness ==
    /\ called = "add_expense"
    /\ [k \in 1 .. Len(Expenses) |-> Expenses[k].id] = <<1, 2, 3>>
    /\ stdout[1] = Line("added", 3)

----------------------------------------------------------------------------
(* Claim about update (SpecUpdate) *)

\* C5: an update of a present id overwrites description, amount and category
\* exactly when the value given is truthy, sets the record's date to now, and
\* leaves the record's id and every other record as they were.
UpdateOverwritesTruthyOnly ==
    [][\A expense_id \in IdArgs, description \in Optional(Descriptions),
          amount \in Optional(Amounts), category \in Optional(Categories), now \in Clock :
         (expense_id \in Ids(Expenses)
             /\ update_expense(expense_id, description, amount, category, now)) =>
           \E k \in 1 .. Len(Expenses) :
             /\ Expenses[k].id = expense_id
             /\ Len(Expenses') = Len(Expenses)
             /\ \A j \in 1 .. Len(Expenses) : j # k => Expenses'[j] = Expenses[j]
             /\ Expenses'[k].id = expense_id
             /\ Expenses'[k].date = <<now.day, now.sec>>
             /\ Expenses'[k].description =
                  IF description \in {None, <<"">>} THEN Expenses[k].description
                  ELSE description[1]
             /\ Expenses'[k].amount =
                  IF amount \in {None, <<0>>} THEN Expenses[k].amount ELSE amount[1]
             /\ Expenses'[k].category =
                  IF category \in {None, <<"">>} THEN Expenses[k].category
                  ELSE category[1]
             /\ stdout' = <<Line("updated", expense_id)>>
      ]_vars

\* C5 witness: the second of two records was updated at midnight of day 1; it
\* kept its description and its amount and got the category "Fun", and the
\* first record is as it was drawn.
UpdateWitness ==
    /\ called = "update_expense"
    /\ Len(Expenses) = 2
    /\ stdout = <<Line("updated", Expenses[2].id)>>
    /\ Expenses[2].date = <<1, 0>>
    /\ Expenses[2].description = "Coffee"
    /\ Expenses[2].amount = 450
    /\ Expenses[2].category = "Fun"
    /\ Expenses[1].date = <<0, 1>>

----------------------------------------------------------------------------
(* Claim about the round trip (SpecRoundTrip) *)

----------------------------------------------------------------------------
(* Claim about the list command (SpecList) *)

\* the rows among the printed lines
Rows(lines) ==
    LET isRow(l) == l.msg = "row"
        rows == SelectSeq(lines, isRow)
    IN  [i \in 1 .. Len(rows) |-> rows[i].arg]

\* the records a conjunctive filter keeps, in the collection's order
Matching(expenses, category, start_date, end_date) ==
    LET keep(e) ==
            /\ category # None => e.category = category[1]
            /\ start_date # None =>
                  TimeLeq([day |-> start_date[1][1], sec |-> 0],
                          [day |-> e.date[1], sec |-> e.date[2]])
            /\ end_date # None =>
                  TimeLeq([day |-> e.date[1], sec |-> e.date[2]],
                          [day |-> end_date[1][1], sec |-> 0])
    IN  SelectSeq(expenses, keep)

\* C10: the list command prints exactly the records that pass every filter
\* given (category, start date, end date), in the collection's order.
ListFiltersConjunctively ==
    [][\A category \in Optional(ListCategories), start_date \in Optional(DateArgs),
          end_date \in Optional(DateArgs) :
         list_command(category, start_date, end_date) =>
            Rows(stdout') = Matching(Expenses, category, start_date, end_date)
      ]_vars

----------------------------------------------------------------------------
(* Claim about two invocations at once (SpecRace) *)

Success == {"added", "deleted", "updated"}

\* C8: when both invocations loaded before either saved and both saved, the
\* document is what the one that saved last wrote, which is its own operation
\* applied to the collection both loaded: the first saver's change is not in
\* it.  Both print success, and two adds print the same id.
LastWriteWins ==
    (Len(saves) = 2 /\ proc[1].early /\ proc[2].early) =>
        LET first == proc[saves[1]]
            last == proc[saves[2]]
        IN  /\ first.expenses = last.expenses
            /\ EXPENSES_FILE = save_expenses(last.written)
            /\ Expenses = effect(last.call, first.expenses)
            /\ first.out[1].msg \in Success
            /\ last.out[1].msg \in Success
            /\ first.call.op = "add" =>
                  Len(Expenses) = Len(first.expenses)
                      + (CASE last.call.op = "add" -> 1
                           [] last.call.op = "delete" -> -1
                           [] last.call.op = "update" -> 0)
            /\ (first.call.op = "add" /\ last.call.op = "add") =>
                  /\ first.out[1] = last.out[1]
                  /\ first.out[1].arg = Expenses[Len(Expenses)].id
            /\ (first.call.op = "delete" /\ last.call.op # "delete") =>
                  first.call.expense_id \in Ids(Expenses)

\* C8 witness: two adds that both loaded first, both saved and both finished.
RaceWitness ==
    /\ Len(saves) = 2
    /\ \A p \in Procs : proc[p].early /\ proc[p].call.op = "add" /\ proc[p].pc = "done"
    /\ Len(Expenses) = Len(proc[1].expenses) + 1

====
